---- MODULE Spec2Model ----
(***************************************************************************)
(* State-machine model of the React front end of the RAG assistant:        *)
(*   - ChatInterface (handleSend, handleClearChat) and the Index page      *)
(*     that owns the session messages,                                     *)
(*   - AdminSidebar (handleFileUpload, handleInspectStructure,             *)
(*     handleClearIndex),                                                  *)
(*   - ApiService (query, uploadDocuments, inspectStructure, clearIndex).  *)
(*                                                                         *)
(* Text is a sequence of one-character strings, so that trim and split     *)
(* are computed and not assumed.  A fixed literal of the code is a         *)
(* one-token text.  Decoded response values are tagged records: t is the   *)
(* JavaScript shape, and the payload field is named after the shape.       *)
(* An asynchronous handler is two steps: the synchronous part up to the    *)
(* await (which creates a pending invocation holding the handler's         *)
(* closure) and the continuation that runs when the request settles.       *)
(* Wall-clock timestamps of messages are not part of the state.            *)
(***************************************************************************)
EXTENDS Integers, Sequences, FiniteSets, TLC

(***************************************************************************)
(* Bounds of the model.                                                    *)
(***************************************************************************)
\* accepted sends per behaviour of the chat specifications
MaxSends == 2
\* accepted sends per behaviour of the normalization specification
MaxNormSends == 2

(***************************************************************************)
(* Text.                                                                   *)
(***************************************************************************)
SP == " "
NL == "\n"

IsWhitespace(c) == c \in {SP, NL}

RECURSIVE TrimStart(_)
TrimStart(s) ==
    IF s = <<>> THEN <<>>
    ELSE IF IsWhitespace(Head(s)) THEN TrimStart(Tail(s)) ELSE s

RECURSIVE TrimEnd(_)
TrimEnd(s) ==
    IF s = <<>> THEN <<>>
    ELSE IF IsWhitespace(s[Len(s)]) THEN TrimEnd(SubSeq(s, 1, Len(s) - 1)) ELSE s

\* a trim that returns its argument as it is
Untrimmed(s) == s

\* String.prototype.trim
Trim(s) == TrimEnd(TrimStart(s))

\* String.prototype.split(sep) for a one-character separator:
\* the pieces between separators, empty pieces included.
RECURSIVE SplitAcc(_, _, _)
SplitAcc(s, sep, cur) ==
    IF s = <<>> THEN <<cur>>
    ELSE IF Head(s) = sep THEN <<cur>> \o SplitAcc(Tail(s), sep, <<>>)
    ELSE SplitAcc(Tail(s), sep, Append(cur, Head(s)))

Split(s, sep) == SplitAcc(s, sep, <<>>)

\* Array.prototype.filter(Boolean) on an array of strings: drops "".
RECURSIVE FilterBoolean(_)
FilterBoolean(pieces) ==
    IF pieces = <<>> THEN <<>>
    ELSE IF Head(pieces) = <<>> THEN FilterBoolean(Tail(pieces))
    ELSE <<Head(pieces)>> \o FilterBoolean(Tail(pieces))

(***************************************************************************)
(* Decoded JSON values, and the absence of a property (undefined).         *)
(***************************************************************************)
Absent == [t |-> "absent"]
Null == [t |-> "null"]
Bool(b) == [t |-> "bool", bool |-> b]
Num(n) == [t |-> "num", num |-> n]
Str(s) == [t |-> "str", str |-> s]
Arr(a) == [t |-> "arr", items |-> a]
\* an object is its sequence of properties [k |-> name, val |-> value]
Obj(ps) == [t |-> "obj", props |-> ps]

\* typeof x === "string"
IsString(x) == x.t = "str"
\* Array.isArray(x)
IsArray(x) == x.t = "arr"
\* JavaScript truthiness (ToBoolean)
Truthy(x) ==
    CASE x.t = "absent" -> FALSE
      [] x.t = "null" -> FALSE
      [] x.t = "bool" -> x.bool
      [] x.t = "num" -> x.num # 0
      [] x.t = "str" -> x.str # <<>>
      [] OTHER -> TRUE

\* a sequence each of whose elements is text
IsTextSeq(x) == IsArray(x) /\ \A i \in 1..Len(x.items) : IsString(x.items[i])

Digit(d) == <<"0", "1", "2", "3", "4", "5", "6", "7", "8", "9">>[d + 1]

RECURSIVE NatText(_)
NatText(n) == IF n < 10 THEN <<Digit(n)>> ELSE NatText(n \div 10) \o <<Digit(n % 10)>>

Indent(n) == [i \in 1..n |-> SP]

\* JSON.stringify(x, null, 2) of a value at nesting depth d (text of tokens);
\* strings here hold no character that needs escaping.
RECURSIVE Stringify(_, _)
RECURSIVE StringifyItems(_, _, _)
StringifyItems(items, d, isObj) ==
    IF items = <<>> THEN <<>>
    ELSE LET it == Head(items)
             body == IF isObj
                     THEN <<"\"">> \o it.k \o <<"\"", ":", SP>> \o Stringify(it.val, d)
                     ELSE Stringify(it, d)
         IN <<NL>> \o Indent(2 * d) \o body
            \o (IF Len(items) > 1 THEN <<",">> ELSE <<>>)
            \o StringifyItems(Tail(items), d, isObj)
Stringify(x, d) ==
    CASE x.t = "null" -> <<"n", "u", "l", "l">>
      [] x.t = "bool" -> IF x.bool THEN <<"t", "r", "u", "e">> ELSE <<"f", "a", "l", "s", "e">>
      [] x.t = "num" -> NatText(x.num)
      [] x.t = "str" -> <<"\"">> \o x.str \o <<"\"">>
      [] x.t = "arr" ->
            IF x.items = <<>> THEN <<"[", "]">>
            ELSE <<"[">> \o StringifyItems(x.items, d + 1, FALSE) \o <<NL>> \o Indent(2 * d) \o <<"]">>
      [] x.t = "obj" ->
            IF x.props = <<>> THEN <<"{", "}">>
            ELSE <<"{">> \o StringifyItems(x.props, d + 1, TRUE) \o <<NL>> \o Indent(2 * d) \o <<"}">>
      [] OTHER -> <<>>

PrettyPrint(x) == Stringify(x, 0)

(***************************************************************************)
(* Fixed texts of the code.                                                *)
(***************************************************************************)
NoAnswerText == <<"No answer received.">>
NoMetadataText == <<"No metadata">>
ApologyText ==
    <<"Sorry, I encountered an error while processing your request. Please try again.">>

(***************************************************************************)
(* ApiService: what a request can settle with.  kind is                    *)
(*   "ok"        a success status; body is the decoded response.json()     *)
(*   "http"      a non-success status with statusText                      *)
(*   "transport" fetch itself rejected (no response received)              *)
(*   "badjson"   a success status whose body response.json() cannot decode *)
(***************************************************************************)
Ok(body) == [kind |-> "ok", body |-> body, statusText |-> <<>>]
HttpFailure(statusText) == [kind |-> "http", body |-> Null, statusText |-> statusText]
TransportFailure == [kind |-> "transport", body |-> Null, statusText |-> <<>>]
DecodeFailure == [kind |-> "badjson", body |-> Null, statusText |-> <<>>]
\* no request settled
NoOutcome == [kind |-> "none", body |-> Null, statusText |-> <<>>]

\* message of the TypeError fetch rejects with
FetchErrorText == <<"Failed to fetch">>
\* message of the SyntaxError response.json() rejects with
JsonErrorText == <<"Unexpected token">>
\* message of the TypeError raised by reading a property of null
NullReadErrorText == <<"Cannot read properties of null">>

\* a thrown error object: its constructor's name and its message
ErrorObject(name, message) == [name |-> name, message |-> message]
NoError == ErrorObject("none", <<>>)
\* a description that is always the fallback text
FallbackDescription(error) == <<"Unknown error">>
\* description: error instanceof Error ? error.message : <fallback>
\* (every error thrown here is an instance of Error)
ErrorDescription(error) == error.message

\* x.k for a decoded value x: undefined unless x is an object holding k
HasProp(x, k) == x.t = "obj" /\ \E i \in 1..Len(x.props) : x.props[i].k = k
Prop(x, k) ==
    IF HasProp(x, k)
    THEN x.props[CHOOSE i \in 1..Len(x.props) : x.props[i].k = k].val
    ELSE Absent
\* reading a property of null throws
PropThrows(x) == x.t = "null"

\* the Error a facade call throws for outcome o, as its message text;
\* prefix is the call's own ("Query failed: ", "Upload failed: ", ...)
ApiThrows(o) == o.kind # "ok"
\* a facade failure message that leaves the status text out
ApiErrorMessageNoStatus(prefix, o) ==
    CASE o.kind = "http" -> prefix
      [] o.kind = "badjson" -> JsonErrorText
      [] OTHER -> FetchErrorText
ApiErrorMessage(prefix, o) ==
    CASE o.kind = "http" -> prefix \o o.statusText
      [] o.kind = "badjson" -> JsonErrorText
      [] OTHER -> FetchErrorText
\* new Error(...) for a non-success status; fetch rejects with a TypeError
\* and response.json() with a SyntaxError
ApiErrorName(o) ==
    CASE o.kind = "http" -> "Error"
      [] o.kind = "badjson" -> "SyntaxError"
      [] OTHER -> "TypeError"
ApiError(prefix, o) == ErrorObject(ApiErrorName(o), ApiErrorMessage(prefix, o))
\* the TypeError of a property read of null
NullReadError == ErrorObject("TypeError", NullReadErrorText)

\* ApiService.query request body: JSON.stringify({ query: question })
QueryRequest(question) == [query |-> question]

\* handleClearIndex's argument: clearIndexName || undefined
ClearIndexArg(name) == IF Truthy(Str(name)) THEN Str(name) ELSE Absent
\* ApiService.clearIndex request body: { index_name: indexName || null }
ClearRequest(indexName) == [index_name |-> IF Truthy(indexName) THEN indexName ELSE Null]

(***************************************************************************)
(* handleSend's defensive formatting of a decoded response.                *)
(***************************************************************************)
\* an answer formatting that tests truthiness instead of the type
NormalizeAnswerIfTruthy(response) ==
    LET a == Prop(response, <<"answer">>)
    IN IF IsString(a) /\ Truthy(a) THEN a.str ELSE NoAnswerText

NormalizeAnswer(response) ==
    LET a == Prop(response, <<"answer">>)
    IN IF IsString(a) THEN a.str ELSE NoAnswerText

\* the message's sources: a sequence of values
NormalizeSources(response) ==
    LET s == Prop(response, <<"sources">>)
    IN IF IsArray(s) THEN s.items
       ELSE IF IsString(s)
            THEN LET lines == FilterBoolean(Split(s.str, NL))
                 IN [i \in 1..Len(lines) |-> Str(lines[i])]
            ELSE <<>>

\* a metadata formatting that serializes every present non-text value
NormalizeMetadataIfPresent(response) ==
    LET m == Prop(response, <<"metadata_used">>)
    IN IF IsString(m) THEN m.str
       ELSE IF m # Absent THEN PrettyPrint(m)
            ELSE NoMetadataText

NormalizeMetadata(response) ==
    LET m == Prop(response, <<"metadata_used">>)
    IN IF IsString(m) THEN m.str
       ELSE IF Truthy(m) THEN PrettyPrint(m)
            ELSE NoMetadataText

\* a log update that empties the batch when the response carries no logs
UpdateLogsOrClear(response, batch) ==
    LET l == Prop(response, <<"logs">>)
    IN IF Truthy(l) /\ IsArray(l) THEN l.items ELSE <<>>

\* the log batch after a response, given the batch before it
UpdateLogs(response, batch) ==
    LET l == Prop(response, <<"logs">>)
    IN IF Truthy(l) /\ IsArray(l) THEN l.items ELSE batch

(***************************************************************************)
(* Messages.  q is the ordinal of the send a message belongs to (the user  *)
(* message it is, or the user message it answers); the code holds no such  *)
(* field, it records the message's origin for the properties below.        *)
(***************************************************************************)
UserMessage(question, q) ==
    [role |-> "user", content |-> question, sources |-> Absent,
     metadata |-> Absent, q |-> q]
AssistantMessage(response, q) ==
    [role |-> "assistant", content |-> NormalizeAnswer(response),
     sources |-> Arr(NormalizeSources(response)),
     metadata |-> Str(NormalizeMetadata(response)), q |-> q]
\* an error message that shows the error's own text
ErrorMessageRaw(q) ==
    [role |-> "assistant", content |-> FetchErrorText, sources |-> Absent,
     metadata |-> Absent, q |-> q]
ErrorMessage(q) ==
    [role |-> "assistant", content |-> ApologyText, sources |-> Absent,
     metadata |-> Absent, q |-> q]

\* a toast: the notification raised by a step
Toast(title, description, variant) ==
    [title |-> title, description |-> description, variant |-> variant]

(***************************************************************************)
(* State.                                                                  *)
(***************************************************************************)
VARIABLES
    \* Index: the session's messages (useState in Index, passed to ChatInterface)
    messages,
    \* ChatInterface: the input buffer, the busy flag, the log batch
    input, isLoading, logs,
    \* handleSend invocations suspended at `await apiService.query`, each with
    \* the closure it resumes with (question, the messages prop it was called
    \* with, updatedMessages), its send ordinal q, the request it issued and
    \* the log batch of the render it was invoked in
    queries,
    \* number of accepted sends so far
    nSends,
    \* the handler step taken last, the values it wrote to the console
    \* (console.log) and the notifications it raised (toast calls)
    last, consoleLog, toasted,
    \* how the request of the last step settled (NoOutcome if the step settled
    \* none) and the error its handler caught (NoError if none)
    settled,
    \* AdminSidebar: the three busy flags, the index-name field, the stored structure
    uploading, inspecting, clearing, clearIndexName, inspectData,
    \* the file input's current selection (event.target.files / value)
    fileInput,
    \* admin handler invocations suspended at their await, with their closures
    uploads, inspects, clears,
    \* Index: whether the admin panel is shown
    sidebarOpen

chatVars == <<messages, input, isLoading, logs, queries, nSends>>
adminVars == <<uploading, inspecting, clearing, clearIndexName, inspectData,
               fileInput, uploads, inspects, clears>>
vars == <<messages, input, isLoading, logs, queries, nSends, last, consoleLog, toasted,
          settled,
          uploading, inspecting, clearing, clearIndexName, inspectData,
          fileInput, uploads, inspects, clears, sidebarOpen>>

\* a settlement after which the invocation is pending again (its request reissued)
KeepPending(s, i) == s
\* the pending invocations once invocation i has run to its end
RemoveAt(s, i) == SubSeq(s, 1, i - 1) \o SubSeq(s, i + 1, Len(s))

\* overwrote: whether the step wrote the session over one that was no longer
\* the session its send had left (set by the settlement of a query)
Settled(o, error) == [outcome |-> o, error |-> error, overwrote |-> FALSE]
\* the settlement of pending query p
QuerySettled(p, o, error) ==
    [Settled(o, error) EXCEPT !.overwrote = (messages # p.updatedMessages)]
NotSettled == Settled(NoOutcome, NoError)

Init ==
    /\ messages = <<>>
    /\ input = <<>>
    /\ isLoading = FALSE
    /\ logs = <<>>
    /\ queries = <<>>
    /\ nSends = 0
    /\ last = "init"
    /\ consoleLog = <<>>
    /\ toasted = <<>>
    /\ settled = NotSettled
    /\ uploading = FALSE
    /\ inspecting = FALSE
    /\ clearing = FALSE
    /\ clearIndexName = <<>>
    /\ inspectData = Null
    /\ fileInput = {}
    /\ uploads = <<>>
    /\ inspects = <<>>
    /\ clears = <<>>
    /\ sidebarOpen = TRUE

(***************************************************************************)
(* What the environment supplies: typed texts, chosen files, outcomes.     *)
(***************************************************************************)
InputTexts == {<<>>, <<SP>>, <<SP, "q", SP>>}
IndexNames == {<<>>, <<SP>>, <<"i">>}
Files == {"f1", "f2"}
StatusTexts == {<<"Not Found">>}

\* a response object with the given properties, absent ones left out
Body(answer, sources, metadata_used, logs_) ==
    Obj(SelectSeq(<<[k |-> <<"answer">>, val |-> answer],
                    [k |-> <<"sources">>, val |-> sources],
                    [k |-> <<"metadata_used">>, val |-> metadata_used],
                    [k |-> <<"logs">>, val |-> logs_]>>,
                  LAMBDA p : p.val # Absent))

Failures == {HttpFailure(s) : s \in StatusTexts} \cup {TransportFailure, DecodeFailure}

\* outcomes of POST /query in the chat specifications
QueryBodies ==
    { Body(Str(<<"a">>), Absent, Absent, Arr(<<Str(<<"l">>)>>)),
      Body(Str(<<"a">>), Absent, Absent, Absent),
      Null }
QueryOutcomes == {Ok(b) : b \in QueryBodies} \cup Failures

\* values a property of the response may hold in the normalization
\* specification: every shape the defensive formatting tells apart
AnswerValues ==
    { Str(<<"a">>), Str(<<>>), Absent, Null, Num(0), Bool(TRUE),
      Arr(<<Str(<<"a">>)>>), Obj(<<[k |-> <<"text">>, val |-> Str(<<"a">>)]>>) }
SourcesValues ==
    { Absent, Null, Num(1), Obj(<<>>),
      Arr(<<>>), Arr(<<Str(<<"a">>), Str(<<"b">>)>>),
      Arr(<<Obj(<<[k |-> <<"content">>, val |-> Str(<<"a">>)]>>)>>),
      Str(<<>>), Str(<<"a", NL, "b", NL>>), Str(<<NL, NL, "a", SP, NL, SP>>) }
MetadataValues ==
    { Absent, Null, Bool(FALSE), Bool(TRUE), Num(0), Num(1),
      Str(<<>>), Str(<<"m">>), Arr(<<>>),
      Obj(<<[k |-> <<"x">>, val |-> Num(1)]>>) }
LogsValues ==
    { Absent, Null, Num(1), Str(<<"l">>), Obj(<<>>),
      Arr(<<>>), Arr(<<Str(<<"l">>)>>), Arr(<<Str(<<"l">>), Str(<<"m">>)>>),
      Arr(<<Num(1)>>) }
\* one property varied at a time around a plain answer
NormBodies ==
    {Body(a, Absent, Absent, Absent) : a \in AnswerValues}
        \cup {Body(Str(<<"a">>), s, Absent, Absent) : s \in SourcesValues}
        \cup {Body(Str(<<"a">>), Absent, m, Absent) : m \in MetadataValues}
        \cup {Body(Str(<<"a">>), Absent, Absent, l) : l \in LogsValues}
NormOutcomes == {Ok(b) : b \in NormBodies}

(***************************************************************************)
(* ChatInterface.                                                          *)
(***************************************************************************)
\* onChange of the input control (disabled while isLoading)
SetInput ==
    /\ ~isLoading
    /\ \E text \in InputTexts : input' = text
    /\ last' = "setInput"
    /\ consoleLog' = <<>>
    /\ toasted' = <<>>
    /\ settled' = NotSettled
    /\ UNCHANGED <<messages, isLoading, logs, queries, nSends>>
    /\ UNCHANGED <<adminVars, sidebarOpen>>

\* handleSend without its guard
SendNeverRejected(question, loading) == FALSE

\* a guard that tests the busy flag alone
SendRejectedWhenLoading(question, loading) == loading

\* handleSend's guard: if (!question || isLoading) return
SendRejected(question, loading) == question = <<>> \/ loading

\* handleSend up to its await; cap bounds the accepted sends of a behaviour
HandleSend(cap) ==
    LET question == Trim(input)
    IN IF SendRejected(question, isLoading)
       THEN /\ last' = "sendRejected"
            /\ consoleLog' = <<>>
            /\ toasted' = <<>>
            /\ settled' = NotSettled
            /\ UNCHANGED <<chatVars, adminVars, sidebarOpen>>
       ELSE /\ nSends < cap
            /\ LET userMessage == UserMessage(question, nSends + 1)
                   updatedMessages == Append(messages, userMessage)
               IN /\ messages' = updatedMessages
                  /\ queries' = Append(queries,
                         [question |-> question,
                          messages |-> messages,
                          updatedMessages |-> updatedMessages,
                          q |-> nSends + 1,
                          logs |-> logs,
                          request |-> QueryRequest(question)])
            /\ input' = <<>>
            /\ isLoading' = TRUE
            /\ nSends' = nSends + 1
            /\ last' = "send"
            /\ consoleLog' = <<>>
            /\ toasted' = <<>>
            /\ settled' = NotSettled
            /\ UNCHANGED <<logs, adminVars, sidebarOpen>>

\* whether handleSend's try block throws for outcome o: the facade threw,
\* or reading response.answer of a null body did
QueryThrows(o) == ApiThrows(o) \/ PropThrows(o.body)
\* the error handleSend's catch clause binds
QueryError(o) ==
    IF ApiThrows(o) THEN ApiError(<<"Query failed: ">>, o) ELSE NullReadError
QueryErrorText(o) == ErrorDescription(QueryError(o))

\* a busy flag that is reset at the end of the try block and not in finally
BusyIfThrew(threw) == threw

\* the busy flag a handler leaves behind: finally { setX(false) }
BusyAfterSettlement(threw) == FALSE

\* a settlement that appends the reply to the session as it stands
SettledOntoCurrent(p, reply) == Append(messages, reply)

\* the session written by a settlement: the closure's updatedMessages and the reply
SettledMessages(p, reply) == Append(p.updatedMessages, reply)

\* handleSend after its await, try block completed: queries[i] settles with o
QuerySuccess(outcomes) ==
    \E i \in 1..Len(queries) : \E o \in outcomes :
        /\ ~QueryThrows(o)
        /\ logs' = UpdateLogs(o.body, logs)
        /\ messages' = SettledMessages(queries[i], AssistantMessage(o.body, queries[i].q))
        /\ last' = "querySuccess"
        /\ consoleLog' = <<o.body>>
        /\ toasted' = <<>>
        /\ settled' = QuerySettled(queries[i], o, NoError)
        /\ isLoading' = BusyAfterSettlement(FALSE)
        /\ queries' = RemoveAt(queries, i)
        /\ UNCHANGED <<input, nSends, adminVars, sidebarOpen>>

\* handleSend after its await, catch block: queries[i] settles with o
QueryFailure(outcomes) ==
    \E i \in 1..Len(queries) : \E o \in outcomes :
        /\ QueryThrows(o)
        /\ messages' = SettledMessages(queries[i], ErrorMessage(queries[i].q))
        /\ last' = "queryFailure"
        /\ consoleLog' = IF ApiThrows(o) THEN <<>> ELSE <<o.body>>
        /\ toasted' = <<Toast(<<"Error">>, QueryErrorText(o), "destructive")>>
        /\ settled' = QuerySettled(queries[i], o, QueryError(o))
        /\ isLoading' = BusyAfterSettlement(TRUE)
        /\ queries' = RemoveAt(queries, i)
        /\ UNCHANGED <<input, logs, nSends, adminVars, sidebarOpen>>

\* a clear-session that also empties the log batch
HandleClearChatAndLogs ==
    /\ Len(messages) > 0
    /\ messages' = <<>>
    /\ logs' = <<>>
    /\ last' = "clearChat"
    /\ consoleLog' = <<>>
    /\ toasted' = <<Toast(<<"Chat Cleared">>, <<"Chat history has been cleared">>, "default")>>
    /\ settled' = NotSettled
    /\ UNCHANGED <<input, isLoading, queries, nSends, adminVars, sidebarOpen>>

\* a clear-session that also abandons the query in flight
HandleClearChatCancels ==
    /\ Len(messages) > 0
    /\ messages' = <<>>
    /\ queries' = <<>>
    /\ isLoading' = FALSE
    /\ last' = "clearChat"
    /\ consoleLog' = <<>>
    /\ toasted' = <<Toast(<<"Chat Cleared">>, <<"Chat history has been cleared">>, "default")>>
    /\ settled' = NotSettled
    /\ UNCHANGED <<input, logs, nSends, adminVars, sidebarOpen>>

\* handleClearChat (its button is rendered only when messages.length > 0)
HandleClearChat ==
    /\ Len(messages) > 0
    /\ messages' = <<>>
    /\ last' = "clearChat"
    /\ consoleLog' = <<>>
    /\ toasted' = <<Toast(<<"Chat Cleared">>, <<"Chat history has been cleared">>, "default")>>
    /\ settled' = NotSettled
    /\ UNCHANGED <<input, isLoading, logs, queries, nSends, adminVars, sidebarOpen>>

(***************************************************************************)
(* AdminSidebar.  Its controls exist only while the panel is shown, and    *)
(* each is disabled while its own operation is busy.                       *)
(***************************************************************************)
UploadOutcomes ==
    {Ok(Obj(<<[k |-> <<"message">>, val |-> Str(<<"ingested">>)],
              [k |-> <<"files_processed">>, val |-> Num(1)]>>))} \cup Failures
Structures ==
    { Obj(<<[k |-> <<"classes">>, val |-> Arr(<<>>)]>>),
      Obj(<<[k |-> <<"classes">>, val |-> Arr(<<Str(<<"Doc">>)>>)]>>) }
InspectOutcomes == {Ok(s) : s \in Structures} \cup Failures
ClearOutcomes ==
    {Ok(Obj(<<[k |-> <<"message">>, val |-> Str(<<"cleared">>)]>>)), Ok(Null)}
        \cup Failures

\* description: error instanceof Error ? error.message : "Unknown error"
ErrorToast(title, message) == Toast(title, message, "destructive")

\* a control that is never disabled
NeverDisabled == FALSE
\* a control disabled while any admin operation is busy
AnyAdminBusy == uploading \/ inspecting \/ clearing
\* the disabled attribute of the file input, of the View Structure button,
\* and of the index-name field and the Clear Index button
UploadDisabled == uploading
InspectDisabled == inspecting
ClearDisabled == clearing

\* a success notification that counts the files the backend reports
UploadedCountFromResult(files, result) == Prop(result, <<"files_processed">>).num
\* the count in the success notification: files.length
UploadedCount(files, result) == Cardinality(files)

\* handleFileUpload without its guard
NeverNoFiles(files) == FALSE

\* a settlement that leaves the file selection as it is
SelectionKept(selection) == selection
\* the file selection after handleFileUpload's finally: event.target.value = ""
SelectionAfterSettlement(selection) == {}

\* handleFileUpload's guard: if (files.length === 0) return
NoFiles(files) == Cardinality(files) = 0

\* handleFileUpload up to its await: onChange of the file input with the chosen files
HandleFileUpload ==
    /\ sidebarOpen
    /\ ~UploadDisabled
    /\ \E files \in SUBSET Files :
        /\ fileInput' = files
        /\ IF NoFiles(files)
           THEN /\ last' = "uploadNoFiles"
                /\ UNCHANGED <<uploading, uploads>>
           ELSE /\ last' = "upload"
                /\ uploading' = TRUE
                /\ uploads' = Append(uploads, [files |-> files])
    /\ consoleLog' = <<>>
    /\ toasted' = <<>>
    /\ settled' = NotSettled
    /\ UNCHANGED <<inspecting, clearing, clearIndexName, inspectData, inspects, clears>>
    /\ UNCHANGED <<chatVars, sidebarOpen>>

\* handleFileUpload after its await: try or catch, then finally
UploadSettles ==
    \E i \in 1..Len(uploads) : \E o \in UploadOutcomes :
        /\ last' = IF ApiThrows(o) THEN "uploadFailure" ELSE "uploadSuccess"
        /\ consoleLog' = IF ApiThrows(o) THEN <<>> ELSE <<o.body>>
        /\ toasted' =
              IF ApiThrows(o)
              THEN <<ErrorToast(<<"Upload Failed">>,
                                ErrorDescription(ApiError(<<"Upload failed: ">>, o)))>>
              ELSE <<Toast(<<"Upload Successful">>,
                           <<"Uploaded ">> \o NatText(UploadedCount(uploads[i].files, o.body))
                               \o <<" documents successfully">>,
                           "default")>>
        /\ settled' = Settled(o, IF ApiThrows(o) THEN ApiError(<<"Upload failed: ">>, o)
                                                  ELSE NoError)
        /\ uploading' = BusyAfterSettlement(ApiThrows(o))
        /\ fileInput' = SelectionAfterSettlement(fileInput)
        /\ uploads' = RemoveAt(uploads, i)
        /\ UNCHANGED <<inspecting, clearing, clearIndexName, inspectData, inspects, clears>>
        /\ UNCHANGED <<chatVars, sidebarOpen>>

\* what an admin operation keeps in state besides its busy flag: inspect
\* keeps the structure it stored last (inspectData); upload and clear-index
\* keep nothing (clearIndexName is clear-index's input field)
OperationPayload(op) == IF op = "inspect" THEN inspectData ELSE Absent

\* a handleInspectStructure that first drops the stored structure
HandleInspectStructureResets ==
    /\ sidebarOpen
    /\ ~InspectDisabled
    /\ inspecting' = TRUE
    /\ inspectData' = Null
    /\ inspects' = Append(inspects, [op |-> "inspect"])
    /\ last' = "inspect"
    /\ consoleLog' = <<>>
    /\ toasted' = <<>>
    /\ settled' = NotSettled
    /\ UNCHANGED <<uploading, clearing, clearIndexName, fileInput, uploads, clears>>
    /\ UNCHANGED <<chatVars, sidebarOpen>>

\* a handleInspectStructure that also raises the chat's busy flag
HandleInspectStructureSharedLoading ==
    /\ sidebarOpen
    /\ ~InspectDisabled
    /\ inspecting' = TRUE
    /\ isLoading' = TRUE
    /\ inspects' = Append(inspects, [op |-> "inspect"])
    /\ last' = "inspect"
    /\ consoleLog' = <<>>
    /\ toasted' = <<>>
    /\ settled' = NotSettled
    /\ UNCHANGED <<uploading, clearing, clearIndexName, inspectData, fileInput, uploads, clears>>
    /\ UNCHANGED <<messages, input, logs, queries, nSends, sidebarOpen>>

\* handleInspectStructure up to its await
HandleInspectStructure ==
    /\ sidebarOpen
    /\ ~InspectDisabled
    /\ inspecting' = TRUE
    /\ inspects' = Append(inspects, [op |-> "inspect"])
    /\ last' = "inspect"
    /\ consoleLog' = <<>>
    /\ toasted' = <<>>
    /\ settled' = NotSettled
    /\ UNCHANGED <<uploading, clearing, clearIndexName, inspectData, fileInput, uploads, clears>>
    /\ UNCHANGED <<chatVars, sidebarOpen>>

\* a settlement that stores a structure only when none is stored yet
StoredFirstOnly(threw, structure, stored) ==
    IF threw \/ stored # Null THEN stored ELSE structure
\* a settlement that drops the stored structure when the request failed
StoredDroppedOnFailure(threw, structure, stored) ==
    IF threw THEN Null ELSE structure
\* inspectData after the settlement: setInspectData(structure) is the first
\* statement after the await in the try block; the catch block has no setter
StoredAfterInspect(threw, structure, stored) ==
    IF threw THEN stored ELSE structure

\* handleInspectStructure after its await
InspectSettles ==
    \E i \in 1..Len(inspects) : \E o \in InspectOutcomes :
        /\ IF ApiThrows(o)
           THEN /\ last' = "inspectFailure"
                /\ consoleLog' = <<>>
                /\ toasted' = <<ErrorToast(<<"Inspect Failed">>,
                                           ErrorDescription(ApiError(<<"Inspect failed: ">>, o)))>>
                /\ settled' = Settled(o, ApiError(<<"Inspect failed: ">>, o))
           ELSE /\ last' = "inspectSuccess"
                /\ consoleLog' = <<>>
                /\ toasted' = <<Toast(<<"Structure Retrieved">>,
                                      <<"Weaviate structure fetched successfully">>,
                                      "default")>>
                /\ settled' = Settled(o, NoError)
        /\ inspectData' = StoredAfterInspect(ApiThrows(o), o.body, inspectData)
        /\ inspecting' = BusyAfterSettlement(ApiThrows(o))
        /\ inspects' = RemoveAt(inspects, i)
        /\ UNCHANGED <<uploading, clearing, clearIndexName, fileInput, uploads, clears>>
        /\ UNCHANGED <<chatVars, sidebarOpen>>

\* onChange of the index-name field (disabled while clearing)
SetClearIndexName ==
    /\ sidebarOpen
    /\ ~ClearDisabled
    /\ \E name \in IndexNames : clearIndexName' = name
    /\ last' = "setClearIndexName"
    /\ consoleLog' = <<>>
    /\ toasted' = <<>>
    /\ settled' = NotSettled
    /\ UNCHANGED <<uploading, inspecting, clearing, inspectData, fileInput,
                   uploads, inspects, clears>>
    /\ UNCHANGED <<chatVars, sidebarOpen>>

\* a handleClearIndex that also drops the stored structure
HandleClearIndexDropsStructure ==
    /\ sidebarOpen
    /\ ~ClearDisabled
    /\ clearing' = TRUE
    /\ inspectData' = Null
    /\ clears' = Append(clears, [name |-> clearIndexName,
                                 request |-> ClearRequest(ClearIndexArg(clearIndexName))])
    /\ last' = "clearIndex"
    /\ consoleLog' = <<>>
    /\ toasted' = <<>>
    /\ settled' = NotSettled
    /\ UNCHANGED <<uploading, inspecting, clearIndexName, fileInput, uploads, inspects>>
    /\ UNCHANGED <<chatVars, sidebarOpen>>

\* handleClearIndex up to its await
HandleClearIndex ==
    /\ sidebarOpen
    /\ ~ClearDisabled
    /\ clearing' = TRUE
    /\ clears' = Append(clears, [name |-> clearIndexName,
                                 request |-> ClearRequest(ClearIndexArg(clearIndexName))])
    /\ last' = "clearIndex"
    /\ consoleLog' = <<>>
    /\ toasted' = <<>>
    /\ settled' = NotSettled
    /\ UNCHANGED <<uploading, inspecting, clearIndexName, inspectData, fileInput,
                   uploads, inspects>>
    /\ UNCHANGED <<chatVars, sidebarOpen>>

\* whether handleClearIndex's try block throws: the facade threw, or reading
\* result.message of a null body did
ClearThrows(o) == ApiThrows(o) \/ PropThrows(o.body)
\* the error handleClearIndex's catch clause binds
ClearError(o) ==
    IF ApiThrows(o) THEN ApiError(<<"Clear failed: ">>, o) ELSE NullReadError
ClearErrorText(o) == ErrorDescription(ClearError(o))

\* handleClearIndex after its await
ClearSettles ==
    \E i \in 1..Len(clears) : \E o \in ClearOutcomes :
        /\ IF ClearThrows(o)
           THEN /\ last' = "clearFailure"
                /\ consoleLog' = <<>>
                /\ toasted' = <<ErrorToast(<<"Clear Failed">>, ClearErrorText(o))>>
                /\ settled' = Settled(o, ClearError(o))
                /\ UNCHANGED clearIndexName
           ELSE /\ last' = "clearSuccess"
                /\ consoleLog' = <<o.body>>
                /\ toasted' = <<Toast(<<"Clear Successful">>,
                                      Prop(o.body, <<"message">>).str, "default")>>
                /\ clearIndexName' = <<>>
                /\ settled' = Settled(o, NoError)
        /\ clearing' = BusyAfterSettlement(ClearThrows(o))
        /\ clears' = RemoveAt(clears, i)
        /\ UNCHANGED <<uploading, inspecting, inspectData, fileInput, uploads, inspects>>
        /\ UNCHANGED <<chatVars, sidebarOpen>>

(***************************************************************************)
(* Index: the sidebar toggle.  AdminSidebar stays mounted (its state and   *)
(* its pending handlers live on) and renders nothing while hidden, so the  *)
(* file input element, and with it the file selection, does not survive.   *)
(***************************************************************************)
\* a toggle that unmounts the panel: its state does not survive being hidden
ToggleSidebarUnmounts ==
    /\ sidebarOpen' = ~sidebarOpen
    /\ fileInput' = {}
    /\ uploading' = FALSE
    /\ inspecting' = FALSE
    /\ clearing' = FALSE
    /\ clearIndexName' = <<>>
    /\ inspectData' = Null
    /\ last' = "toggle"
    /\ consoleLog' = <<>>
    /\ toasted' = <<>>
    /\ settled' = NotSettled
    /\ UNCHANGED <<uploads, inspects, clears>>
    /\ UNCHANGED chatVars

ToggleSidebar ==
    /\ sidebarOpen' = ~sidebarOpen
    /\ fileInput' = {}
    /\ last' = "toggle"
    /\ consoleLog' = <<>>
    /\ toasted' = <<>>
    /\ settled' = NotSettled
    /\ UNCHANGED <<uploading, inspecting, clearing, clearIndexName, inspectData,
                   uploads, inspects, clears>>
    /\ UNCHANGED chatVars

(***************************************************************************)
(* Specifications.                                                         *)
(***************************************************************************)
NextChat ==
    \/ SetInput
    \/ HandleSend(MaxSends)
    \/ QuerySuccess(QueryOutcomes)
    \/ QueryFailure(QueryOutcomes)
    \/ HandleClearChat

NextAdmin ==
    \/ HandleFileUpload
    \/ UploadSettles
    \/ HandleInspectStructure
    \/ InspectSettles
    \/ SetClearIndexName
    \/ HandleClearIndex
    \/ ClearSettles
    \/ ToggleSidebar

Next == NextChat \/ NextAdmin

\* the whole page
Spec == Init /\ [][Next]_vars
\* the chat alone, the admin panel untouched
SpecChat == Init /\ [][NextChat]_vars
\* the admin panel alone, the chat untouched
SpecAdmin == Init /\ [][NextAdmin]_vars

NextNorm ==
    \/ SetInput
    \/ HandleSend(MaxNormSends)
    \/ QuerySuccess(NormOutcomes)

\* the chat answering successfully, over every response shape
SpecNorm == Init /\ [][NextNorm]_vars

(***************************************************************************)
(* Properties.                                                             *)
(***************************************************************************)
Last(s) == s[Len(s)]
\* the step is a handleSend invocation
SendStep == last' \in {"send", "sendRejected"}
\* the step is the settlement of queries[i]
SettleStep(i) ==
    /\ last' \in {"querySuccess", "queryFailure"}
    /\ queries' = RemoveAt(queries, i)

\* C1: a send invoked while idle with an input whose trimmed text is not
\* empty makes the session exactly one message longer in the send step, and
\* when its query settles, by success or by failure, the session is exactly
\* two messages longer than it was before the send.
C1_SendAddsOneSettlementTwo ==
    [][ /\ (SendStep /\ ~isLoading /\ Trim(input) # <<>>)
            => Len(messages') = Len(messages) + 1
        /\ \A i \in 1..Len(queries) :
            SettleStep(i) => Len(messages') = Len(queries[i].messages) + 2
      ]_vars

\* C1 witness: two sends have settled, one by failure and then one by success
C1_Witness ==
    /\ last = "querySuccess"
    /\ Len(messages) = 4
    /\ messages[2].content = ApologyText

\* C2: a send invoked while a query is in flight changes nothing (no request,
\* no message, no change to the input or the busy flag), and at most one
\* query request is in flight in every reachable state.
C2_SecondSendIsNoOp ==
    /\ [](Len(queries) <= 1)
    /\ [][ (SendStep /\ queries # <<>>)
            => UNCHANGED <<messages, input, isLoading, logs, queries, nSends>> ]_vars

\* C2 witness: handleSend has just been invoked and rejected with a query in flight
C2_Witness ==
    /\ last = "sendRejected"
    /\ Len(queries) = 1
    /\ isLoading

RECURSIVE NonEmptyLines(_)
NonEmptyLines(s) ==
    IF s = <<>> THEN <<>>
    ELSE IF Head(s) = NL THEN NonEmptyLines(Tail(s))
    ELSE LET stops == {k \in 1..Len(s) : s[k] = NL}
             n == IF stops = {} THEN Len(s) + 1
                  ELSE CHOOSE k \in stops : \A j \in stops : k <= j
         IN <<SubSeq(s, 1, n - 1)>> \o NonEmptyLines(SubSeq(s, n, Len(s)))
TextArray(lines) == Arr([i \in 1..Len(lines) |-> Str(lines[i])])

\* the response the last step answered with
Response == consoleLog[1]

\* C5: after a successful response, the assistant message's sources are the
\* response's `sources` unchanged if that is a sequence of text, its
\* non-empty lines in order if it is a text, and the empty sequence if it is
\* absent or of any other shape.
C5_SourcesNormalized ==
    last = "querySuccess" =>
        LET s == Prop(Response, <<"sources">>)
            got == Last(messages).sources
        IN /\ IsTextSeq(s) => got = s
           /\ IsString(s) => got = TextArray(NonEmptyLines(s.str))
           /\ (~IsTextSeq(s) /\ ~IsString(s)) => got = Arr(<<>>)

\* C6 as stated: the metadata is `metadata_used` unchanged if it is text, its
\* pretty-printed serialization if it is present with any other value (0,
\* false and null included), and the sentinel only if it is absent.
C6_MetadataSerializedIfPresent ==
    last = "querySuccess" =>
        LET m == Prop(Response, <<"metadata_used">>)
            got == Last(messages).metadata
        IN /\ IsString(m) => got = m
           /\ (~IsString(m) /\ m # Absent) => got = Str(PrettyPrint(m))
           /\ m = Absent => got = Str(NoMetadataText)

\* the non-text values JavaScript takes for false
FalsyNonText == {Absent, Null, Bool(FALSE), Num(0)}

\* C6 amended: the metadata is `metadata_used` unchanged if it is text (the
\* empty text included), its pretty-printed serialization if it is a
\* non-text value other than null, false and 0, and the sentinel
\* "No metadata" if it is absent, null, false or 0.
C6_MetadataSerializedIfTruthy ==
    last = "querySuccess" =>
        LET m == Prop(Response, <<"metadata_used">>)
            got == Last(messages).metadata
        IN /\ IsString(m) => got = m
           /\ (~IsString(m) /\ m \notin FalsyNonText) => got = Str(PrettyPrint(m))
           /\ m = Obj(<<[k |-> <<"x">>, val |-> Num(1)]>>)
                => got.str = <<"{", NL, SP, SP, "\"", "x", "\"", ":", SP, "1", NL, "}">>
           /\ m \in FalsyNonText => got = Str(NoMetadataText)

\* C6 witness: a response whose metadata_used is null was answered with the sentinel
C6_Witness ==
    /\ last = "querySuccess"
    /\ Prop(Response, <<"metadata_used">>) = Null
    /\ Last(messages).metadata = Str(NoMetadataText)

\* C7: a successful response whose `logs` is a sequence of text makes the log
\* batch exactly that sequence (the empty one included); with `logs` absent or
\* of any other shape the settlement leaves the log batch as it was.
C7_LogsReplacedOnlyByTextSequence ==
    [][ last' = "querySuccess" =>
          LET l == Prop(consoleLog'[1], <<"logs">>)
          IN /\ IsTextSeq(l) => logs' = l.items
             /\ ~IsTextSeq(l) => logs' = logs
      ]_vars

\* C8: a clear-index invoked with an empty or whitespace-only name field
\* sends the body {index_name: null}.
C8_BlankNameSendsNull ==
    \A i \in 1..Len(clears) :
        Trim(clears[i].name) = <<>> => clears[i].request = [index_name |-> Null]

\* C9: an upload invoked with no files issues no request, and the upload busy
\* flag is false before and after it.
C9_EmptyUploadDoesNothing ==
    [][ (last' \in {"upload", "uploadNoFiles"} /\ fileInput' = {})
            => (uploads' = uploads /\ ~uploading /\ ~uploading') ]_vars

\* C9 witness: the file input has just changed to an empty selection
C9_Witness ==
    /\ last = "uploadNoFiles"
    /\ fileInput = {}
    /\ ~uploading
    /\ uploads = <<>>

\* the session alternates user, assistant, ..., each assistant message
\* answering the user message right before it, in the order of the sends
Alternates ==
    /\ \A j \in 1..Len(messages) :
          messages[j].role = IF j % 2 = 1 THEN "user" ELSE "assistant"
    /\ \A j \in 1..Len(messages) : j % 2 = 0 => messages[j].q = messages[j - 1].q
    /\ \A j \in 1..Len(messages) : \A k \in 1..Len(messages) :
          (j < k /\ messages[j].role = "user" /\ messages[k].role = "user")
              => messages[j].q < messages[k].q

\* C10 as stated: the session alternates in send order, and its last message
\* is a user message without a reply exactly when a query is in flight.
C10_AlternatesUnrepliedIffInFlight ==
    /\ Alternates
    /\ (Len(messages) % 2 = 1) <=> (queries # <<>>)

\* C10 amended: the session alternates in send order, and its last message is
\* a user message without a reply only while a query is in flight, that
\* message being the in-flight query's (a query may be in flight with no
\* such message, after a clear-session).
C10_AlternatesUnrepliedOnlyInFlight ==
    /\ Alternates
    /\ (Len(messages) % 2 = 1) =>
          /\ Len(queries) = 1
          /\ Last(messages) = UserMessage(queries[1].question, queries[1].q)

\* C10 witness: an answered exchange followed by a question in flight
C10_Witness ==
    /\ Len(messages) = 3
    /\ Len(queries) = 1
    /\ messages[2].q = 1
    /\ messages[3].q = 2

\* C11: the session is append-only except for full clear: every step leaves
\* the session unchanged, or appends exactly one message to its end, or is
\* the clear-session action and leaves it empty; in particular a settlement
\* does not put back messages a clear has removed.
C11_AppendOnlyExceptClear ==
    [][ \/ messages' = messages
        \/ /\ Len(messages') = Len(messages) + 1
           /\ SubSeq(messages', 1, Len(messages)) = messages
        \/ /\ last' = "clearChat"
           /\ messages' = <<>>
      ]_vars

\* C12: for upload, inspect and clear-index alike, the busy flag is true
\* exactly while a request of the operation is in flight: it is set by the
\* step that issues the request and is false after the settlement step,
\* whether the request succeeded or failed.
C12_BusyFromIssueToSettlement ==
    /\ [](/\ uploading <=> uploads # <<>>
          /\ inspecting <=> inspects # <<>>
          /\ clearing <=> clears # <<>>)
    /\ [][ /\ last' = "upload" => (uploading' /\ Len(uploads') = Len(uploads) + 1)
           /\ last' = "inspect" => (inspecting' /\ Len(inspects') = Len(inspects) + 1)
           /\ last' = "clearIndex" => (clearing' /\ Len(clears') = Len(clears) + 1)
           /\ last' \in {"uploadSuccess", "uploadFailure"} => (uploading /\ ~uploading')
           /\ last' \in {"inspectSuccess", "inspectFailure"} => (inspecting /\ ~inspecting')
           /\ last' \in {"clearSuccess", "clearFailure"} => (clearing /\ ~clearing')
         ]_vars

\* C12 witness: an inspect request has just failed while an upload and a
\* clear-index are still in flight
C12_Witness ==
    /\ last = "inspectFailure"
    /\ ~inspecting
    /\ uploading
    /\ clearing

\* C13: at most one request of each admin operation is in flight in every
\* reachable state, and no step taken while an operation is busy issues a
\* further request of that operation.
C13_AtMostOneRequestPerOperation ==
    /\ [](Len(uploads) <= 1 /\ Len(inspects) <= 1 /\ Len(clears) <= 1)
    /\ [][ /\ uploading => Len(uploads') <= Len(uploads)
           /\ inspecting => Len(inspects') <= Len(inspects)
           /\ clearing => Len(clears') <= Len(clears)
         ]_vars

\* C13 witness: every admin operation is busy with one request, its control
\* disabled, the panel shown
C13_Witness ==
    /\ sidebarOpen
    /\ UploadDisabled /\ InspectDisabled /\ ClearDisabled
    /\ Len(uploads) = 1 /\ Len(inspects) = 1 /\ Len(clears) = 1

\* the steps of the admin operations: invocation and settlement
AdminSteps ==
    {"upload", "uploadNoFiles", "uploadSuccess", "uploadFailure",
     "inspect", "inspectSuccess", "inspectFailure",
     "clearIndex", "clearSuccess", "clearFailure"}

\* C14: no step of upload, inspect or clear-index changes the session's
\* messages, the log batch, the chat input buffer or the query busy flag.
C14_AdminStepsLeaveChatAlone ==
    [][ last' \in AdminSteps => UNCHANGED <<messages, logs, input, isLoading, queries>> ]_vars

\* C14 witness: a clear-index has just succeeded beside a chat that holds an
\* answered exchange, log lines and a question in flight
C14_Witness ==
    /\ last = "clearSuccess"
    /\ Len(messages) = 3
    /\ logs # <<>>
    /\ isLoading

\* C15: an operation being busy never rejects an invocation of a different
\* operation: whenever the panel is shown and an admin operation is not
\* itself busy its invocation issues a request, and whenever no query is in
\* flight a send of a non-blank input is accepted, whatever the other busy
\* flags are.
C15_BusyNeverBlocksOtherOperations ==
    /\ (sidebarOpen /\ ~uploading) => ENABLED (HandleFileUpload /\ last' = "upload")
    /\ (sidebarOpen /\ ~inspecting) => ENABLED HandleInspectStructure
    /\ (sidebarOpen /\ ~clearing) => ENABLED HandleClearIndex
    /\ (~isLoading /\ Trim(input) # <<>> /\ nSends < MaxSends)
          => ENABLED (HandleSend(MaxSends) /\ last' = "send")

\* C15 witness: upload, inspect, clear-index and the query all have a
\* request in flight at once
C15_Witness ==
    /\ Len(uploads) = 1 /\ Len(inspects) = 1 /\ Len(clears) = 1 /\ Len(queries) = 1
    /\ uploading /\ inspecting /\ clearing /\ isLoading

\* the step settled a facade call
CallSettled == settled.outcome.kind # "none"
\* the prefix of the failure message of the call the last step settled
CallPrefix ==
    CASE last \in {"querySuccess", "queryFailure"} -> <<"Query failed: ">>
      [] last \in {"uploadSuccess", "uploadFailure"} -> <<"Upload failed: ">>
      [] last \in {"inspectSuccess", "inspectFailure"} -> <<"Inspect failed: ">>
      [] OTHER -> <<"Clear failed: ">>
\* the handler was handed the call's decoded body: it caught nothing, or
\* only its own failure to read a property of a null body
BodyReturned == settled.error \in {NoError, NullReadError}
\* the decoded body is what the handler then logged or stored
BodyDelivered ==
    settled.error = NoError =>
        IF last = "inspectSuccess" THEN inspectData = settled.outcome.body
        ELSE consoleLog = <<settled.outcome.body>>

FailureSteps == {"queryFailure", "uploadFailure", "inspectFailure", "clearFailure"}
\* the request of the last step failed: the facade threw, or the handler
\* threw on the body it was handed
Threw == CallSettled /\ settled.error # NoError

\* C17: no failure escapes a handler: every facade error, and every
\* exception raised on a response body that is not an object, is caught by
\* the handler that issued the call (it ends in its failure branch with an
\* error notification), after which the operation's busy flag is false, no
\* request of it is in flight and a new invocation of it is accepted.
C17_FailuresHandledAndIdleAgain ==
    /\ (CallSettled /\ settled.outcome.kind # "ok") => Threw
    /\ (CallSettled /\ settled.outcome.body = Null
            /\ last \in {"querySuccess", "queryFailure", "clearSuccess", "clearFailure"})
          => Threw
    /\ Threw =>
          /\ last \in FailureSteps
          /\ Len(toasted) = 1 /\ toasted[1].variant = "destructive"
          /\ last = "queryFailure" =>
                /\ ~isLoading /\ queries = <<>>
                /\ ENABLED SetInput
                /\ \A text \in InputTexts :
                      Trim(text) # <<>> => ~SendRejected(Trim(text), isLoading)
          /\ last = "uploadFailure" =>
                /\ ~uploading /\ uploads = <<>>
                /\ sidebarOpen => ENABLED (HandleFileUpload /\ last' = "upload")
          /\ last = "inspectFailure" =>
                /\ ~inspecting /\ inspects = <<>>
                /\ sidebarOpen => ENABLED HandleInspectStructure
          /\ last = "clearFailure" =>
                /\ ~clearing /\ clears = <<>>
                /\ sidebarOpen => ENABLED HandleClearIndex

\* C17 witness: a query answered with a null body has just ended in the
\* handler's failure branch
C17_Witness ==
    /\ last = "queryFailure"
    /\ settled.outcome = Ok(Null)
    /\ settled.error = NullReadError
    /\ ~isLoading

\* C18: a request that has not settled keeps its operation busy: no step
\* other than the request's own settlement resets the busy flag or removes
\* the request, and while a query is in flight no step other than its
\* settlement appends a message and every send is rejected.
C18_HungRequestStaysBusy ==
    /\ [](/\ queries # <<>> => isLoading
          /\ uploads # <<>> => uploading
          /\ inspects # <<>> => inspecting
          /\ clears # <<>> => clearing)
    /\ [][ /\ (queries # <<>> /\ last' \notin {"querySuccess", "queryFailure"}) =>
                /\ isLoading' /\ queries' = queries
                /\ messages' \in {messages, <<>>}
                /\ SendStep => last' = "sendRejected"
           /\ (uploads # <<>> /\ last' \notin {"uploadSuccess", "uploadFailure"}) =>
                (uploading' /\ uploads' = uploads)
           /\ (inspects # <<>> /\ last' \notin {"inspectSuccess", "inspectFailure"}) =>
                (inspecting' /\ inspects' = inspects)
           /\ (clears # <<>> /\ last' \notin {"clearSuccess", "clearFailure"}) =>
                (clearing' /\ clears' = clears)
         ]_vars

\* C18 witness: with a query and an inspect request both unanswered, the
\* session has been cleared and a further send has just been rejected
C18_Witness ==
    /\ last = "sendRejected"
    /\ queries # <<>> /\ isLoading
    /\ inspects # <<>> /\ inspecting
    /\ messages = <<>>

\* C19: a step raises an error notification exactly when it is the failure
\* of an operation, one notification per failure, and its text is the
\* message of the error the handler caught.
C19_OneErrorNotificationPerFailure ==
    /\ Threw <=> last \in FailureSteps
    /\ last \in FailureSteps =>
          /\ Len(toasted) = 1
          /\ toasted[1].variant = "destructive"
          /\ toasted[1].description = settled.error.message
          /\ settled.outcome.kind = "http" =>
                toasted[1].description = CallPrefix \o settled.outcome.statusText
    /\ last \notin FailureSteps =>
          \A i \in 1..Len(toasted) : toasted[i].variant # "destructive"

\* C19 witness: a clear-index has just failed with a non-success status
C19_Witness ==
    /\ last = "clearFailure"
    /\ Len(toasted) = 1
    /\ toasted[1].description = <<"Clear failed: ", "Not Found">>

\* C20: a query that settles by failure leaves the log batch as it was when
\* the send was invoked (and as it was just before the settlement).
C20_FailureKeepsLogs ==
    [][ \A i \in 1..Len(queries) :
          (SettleStep(i) /\ last' = "queryFailure") =>
              (logs' = queries[i].logs /\ logs' = logs)
      ]_vars

\* C20 witness: a query has just failed while log lines of an earlier
\* answer are held
C20_Witness ==
    /\ last = "queryFailure"
    /\ logs = <<Str(<<"l">>)>>
    /\ Len(messages) = 4

IsTrimOf(t, s) ==
    \E a \in 0..Len(s) : \E b \in a..Len(s) :
        /\ t = SubSeq(s, a + 1, b)
        /\ \A k \in 1..Len(s) : (k <= a \/ k > b) => s[k] \in {SP, NL}
        /\ t # <<>> => (t[1] \notin {SP, NL} /\ t[Len(t)] \notin {SP, NL})

\* C22: an accepted send appends a user message whose content is the input
\* without its leading and trailing whitespace, issues one query request
\* whose question is that same text, empties the input buffer and raises the
\* busy flag, all in one step.
C22_AcceptedSend ==
    [][ last' = "send" =>
          LET m == Last(messages')
              r == Last(queries')
          IN /\ messages' = Append(messages, m)
             /\ m.role = "user"
             /\ IsTrimOf(m.content, input) /\ m.content # <<>>
             /\ queries' = Append(queries, r)
             /\ r.request = [query |-> m.content]
             /\ input' = <<>>
             /\ ~isLoading /\ isLoading'
      ]_vars

\* C22 witness: the input " q " has just been sent as "q"
C22_Witness ==
    /\ last = "send"
    /\ Last(messages).content = <<"q">>
    /\ Last(queries).request = [query |-> <<"q">>]
    /\ input = <<>>
    /\ isLoading

\* C23: a send invoked while idle with an input that is empty or holds only
\* whitespace changes nothing: no message, no request, the busy flag still
\* false, the input buffer and the log batch as they were.
C23_BlankSendDoesNothing ==
    [][ (SendStep /\ ~isLoading /\ \A k \in 1..Len(input) : input[k] \in {SP, NL}) =>
          /\ UNCHANGED <<messages, queries, input, logs, nSends>>
          /\ ~isLoading'
      ]_vars

\* C23 witness: a send of the input " " has just been rejected while idle
C23_Witness ==
    /\ last = "sendRejected"
    /\ input = <<SP>>
    /\ ~isLoading
    /\ queries = <<>>

\* C24: after a successful response, the assistant message's content is the
\* response's `answer` unchanged if that is text, the empty text included,
\* and the fixed no-answer placeholder if it is absent or of any other shape.
C24_AnswerNormalized ==
    last = "querySuccess" =>
        LET a == Prop(Response, <<"answer">>)
            got == Last(messages).content
        IN /\ a.t = "str" => got = a.str
           /\ a.t # "str" => got = <<"No answer received.">>

\* C24 witness: a response whose answer is the empty text was shown as the
\* empty text
C24_Witness ==
    /\ last = "querySuccess"
    /\ Prop(Response, <<"answer">>) = Str(<<>>)
    /\ Last(messages).content = <<>>
    /\ Last(messages).role = "assistant"

\* C25: there is no automatic retry: an accepted invocation of query,
\* upload, inspect or clear-index issues exactly one request, no other step
\* issues a request of that operation, and a settlement, a failure included,
\* ends the invocation without issuing a request.
C25_OneRequestPerInvocation ==
    [][ /\ Len(queries') = Len(queries) +
              (CASE last' = "send" -> 1
                 [] last' \in {"querySuccess", "queryFailure"} -> -1
                 [] OTHER -> 0)
        /\ Len(uploads') = Len(uploads) +
              (CASE last' = "upload" -> 1
                 [] last' \in {"uploadSuccess", "uploadFailure"} -> -1
                 [] OTHER -> 0)
        /\ Len(inspects') = Len(inspects) +
              (CASE last' = "inspect" -> 1
                 [] last' \in {"inspectSuccess", "inspectFailure"} -> -1
                 [] OTHER -> 0)
        /\ Len(clears') = Len(clears) +
              (CASE last' = "clearIndex" -> 1
                 [] last' \in {"clearSuccess", "clearFailure"} -> -1
                 [] OTHER -> 0)
        /\ last' \in FailureSteps =>
              Len(queries') + Len(uploads') + Len(inspects') + Len(clears')
                  < Len(queries) + Len(uploads) + Len(inspects) + Len(clears)
      ]_vars

\* C25 witness: after a query failed, the question was sent again by hand
\* and that second request is the only one in flight
C25_Witness ==
    /\ last = "send"
    /\ nSends = 2
    /\ Len(messages) = 3
    /\ messages[2].content = ApologyText
    /\ Len(queries) = 1

\* C26: after an upload of a non-empty file set settles, by success or by
\* failure, the file selection is empty.
C26_SelectionEmptyAfterUpload ==
    [][ \A i \in 1..Len(uploads) :
          (last' \in {"uploadSuccess", "uploadFailure"} /\ uploads' = RemoveAt(uploads, i)) =>
              (uploads[i].files # {} /\ fileInput' = {})
      ]_vars

\* C26 witness: an upload has just failed with the panel shown throughout,
\* and the selection is empty
C26_Witness ==
    /\ last = "uploadFailure"
    /\ sidebarOpen
    /\ fileInput = {}
    /\ settled.outcome = TransportFailure

\* C27: a clear-index that settles by success leaves the index-name field
\* empty; one that settles by failure leaves it holding the value it held
\* when the operation was invoked.
C27_NameFieldAfterClear ==
    [][ \A i \in 1..Len(clears) :
          /\ (last' = "clearSuccess" /\ clears' = RemoveAt(clears, i)) =>
                clearIndexName' = <<>>
          /\ (last' = "clearFailure" /\ clears' = RemoveAt(clears, i)) =>
                clearIndexName' = clears[i].name
      ]_vars

\* C27 witness: a clear-index of the index "i" has just failed and the field
\* still holds "i"
C27_Witness ==
    /\ last = "clearFailure"
    /\ clearIndexName = <<"i">>
    /\ ~clearing

\* C28 as stated: while an admin operation is busy its payload holds nothing
\* of an earlier invocation; for inspect, no stored structure.
C28_PayloadResetAtInvocation ==
    /\ uploading => OperationPayload("upload") \in {Absent, Null}
    /\ inspecting => OperationPayload("inspect") \in {Absent, Null}
    /\ clearing => OperationPayload("clear") \in {Absent, Null}

\* C28 amended: no invocation resets a payload.  The stored structure
\* changes only when an inspect succeeds, and then to the structure that
\* inspect returned; the step that invokes inspect, every failure and every
\* other step leave it as it was.  Upload and clear-index keep no payload.
C28_PayloadKeptUntilNextSuccess ==
    [][ /\ inspectData' # inspectData =>
              (last' = "inspectSuccess" /\ inspectData' = settled'.outcome.body)
        /\ last' \in {"inspect", "inspectFailure"} => inspectData' = inspectData
        /\ last' = "inspectSuccess" => inspectData' = settled'.outcome.body
      ]_vars

\* C28 witness: inspect has just been invoked again and is busy while the
\* structure of the earlier inspect is still stored
C28_Witness ==
    /\ last = "inspect"
    /\ inspecting
    /\ inspectData \in Structures

AdminFailureSteps == {"uploadFailure", "inspectFailure", "clearFailure"}
\* the admin operation a step belongs to
OperationOf(step) ==
    CASE step \in {"upload", "uploadNoFiles", "uploadSuccess", "uploadFailure"} -> "upload"
      [] step \in {"inspect", "inspectSuccess", "inspectFailure"} -> "inspect"
      [] OTHER -> "clear"

\* C29 as stated: after an admin operation fails, its own state holds a
\* record of the error, and nothing else has changed.
C29_FailureRecordedInState ==
    last \in AdminFailureSteps =>
        OperationPayload(OperationOf(last)) = Str(settled.error.message)

\* C29 amended: an admin operation that fails keeps no record of the error:
\* the error's message goes to the notification alone, the operation's busy
\* flag becomes false (and the upload's file selection empty), the stored
\* structure and the index-name field are as they were, and no other
\* operation's state and no part of the chat has changed.
C29_FailureOnlyNotified ==
    [][ last' \in AdminFailureSteps =>
          /\ Len(toasted') = 1
          /\ toasted'[1].description = settled'.error.message
          /\ UNCHANGED <<inspectData, clearIndexName>>
          /\ UNCHANGED <<messages, input, isLoading, logs, queries, nSends, sidebarOpen>>
          /\ last' = "uploadFailure" =>
                /\ uploading /\ ~uploading' /\ fileInput' = {}
                /\ UNCHANGED <<inspecting, clearing, inspects, clears>>
          /\ last' = "inspectFailure" =>
                /\ inspecting /\ ~inspecting'
                /\ UNCHANGED <<uploading, clearing, fileInput, uploads, clears>>
          /\ last' = "clearFailure" =>
                /\ clearing /\ ~clearing'
                /\ UNCHANGED <<uploading, inspecting, fileInput, uploads, inspects>>
      ]_vars

\* C29 witness: an inspect has just failed beside a chat in use; the
\* structure of an earlier inspect is still stored and an upload is in flight
C29_Witness ==
    /\ last = "inspectFailure"
    /\ inspectData \in Structures
    /\ uploading
    /\ messages # <<>>

\* C30 as stated: after an upload succeeds, the upload operation's payload
\* holds the body the backend returned.
C30_UploadResultStored ==
    last = "uploadSuccess" => OperationPayload("upload") = settled.outcome.body

\* C30 amended: an upload that succeeds writes the returned body to the
\* console and raises one notification that names the number of files that
\* were selected; no state of the admin panel holds the returned body.
C30_UploadResultLoggedOnly ==
    [][ \A i \in 1..Len(uploads) :
          (last' = "uploadSuccess" /\ uploads' = RemoveAt(uploads, i)) =>
              LET body == settled'.outcome.body
                  n == Cardinality(uploads[i].files)
              IN /\ consoleLog' = <<body>>
                 /\ Len(toasted') = 1
                 /\ toasted'[1].title = <<"Upload Successful">>
                 /\ n = 1 => toasted'[1].description =
                                <<"Uploaded ", "1", " documents successfully">>
                 /\ n = 2 => toasted'[1].description =
                                <<"Uploaded ", "2", " documents successfully">>
                 /\ n \in {1, 2}
                 /\ UNCHANGED <<inspectData, clearIndexName>>
                 /\ inspectData' # body
      ]_vars

\* C30 witness: an upload of two files has just succeeded
C30_Witness ==
    /\ last = "uploadSuccess"
    /\ consoleLog = <<settled.outcome.body>>
    /\ Prop(settled.outcome.body, <<"files_processed">>) = Num(1)
    /\ toasted[1].description = <<"Uploaded ", "2", " documents successfully">>

\* C31: after an inspect settles successfully the stored structure is the
\* body that request was answered with, unchanged, whatever structure was
\* stored before.
C31_StructureStoredVerbatim ==
    [][ \A i \in 1..Len(inspects) :
          (last' = "inspectSuccess" /\ inspects' = RemoveAt(inspects, i)) =>
              /\ settled'.outcome.kind = "ok"
              /\ inspectData' = settled'.outcome.body
      ]_vars

\* C31 witness: an inspect has just succeeded and stored the structure that
\* holds one class
C31_Witness ==
    /\ last = "inspectSuccess"
    /\ ~inspecting
    /\ inspectData = Obj(<<[k |-> <<"classes">>, val |-> Arr(<<Str(<<"Doc">>)>>)]>>)

\* C32: each admin operation is confined to its own state: a step of upload
\* (invocation or settlement) leaves the state of inspect and of clear-index
\* as it was, a step of inspect that of upload and of clear-index, a step of
\* clear-index that of upload and of inspect, in every interleaving.
C32_AdminOperationsIsolated ==
    [][ /\ (last' \in AdminSteps /\ OperationOf(last') = "upload") =>
              UNCHANGED <<inspecting, inspectData, inspects, clearing, clearIndexName, clears>>
        /\ (last' \in AdminSteps /\ OperationOf(last') = "inspect") =>
              UNCHANGED <<uploading, fileInput, uploads, clearing, clearIndexName, clears>>
        /\ (last' \in AdminSteps /\ OperationOf(last') = "clear") =>
              UNCHANGED <<uploading, fileInput, uploads, inspecting, inspectData, inspects>>
      ]_vars

\* C32 witness: an upload has just succeeded while inspect and clear-index
\* are busy, a structure is stored and an index name is typed
C32_Witness ==
    /\ last = "uploadSuccess"
    /\ inspecting /\ clearing
    /\ inspectData \in Structures
    /\ clearIndexName = <<"i">>

\* C33: the settlement of a query writes the session from the snapshot of
\* its send: the session becomes the session as it was right before the
\* send, then the send's user message, then one assistant message, whatever
\* the session holds at the settlement.
C33_SettlementWritesSnapshot ==
    [][ /\ last' = "send" =>
              /\ Last(queries').messages = messages
              /\ Last(queries').updatedMessages = messages'
        /\ \A i \in 1..Len(queries) :
              SettleStep(i) =>
                  LET p == queries[i]
                      reply == Last(messages')
                  IN /\ messages' = p.messages \o <<UserMessage(p.question, p.q), reply>>
                     /\ reply.role = "assistant"
      ]_vars

\* C33 witness: a query has just failed after the session was cleared during
\* its flight, and the session holds the question and the reply again
C33_Witness ==
    /\ last = "queryFailure"
    /\ settled.overwrote
    /\ Len(messages) = 2
    /\ messages[1].role = "user"

\* C34: a clear-session while a query is in flight leaves the request in
\* flight and the busy flag true; as long as the request is in flight the
\* busy flag is true, every send is rejected and the settlement, by success
\* or by failure, can take place.
C34_ClearDoesNotCancel ==
    /\ [](queries # <<>> =>
              /\ isLoading
              /\ \A text \in InputTexts : SendRejected(Trim(text), isLoading)
              /\ ENABLED QuerySuccess(QueryOutcomes)
              /\ ENABLED QueryFailure(QueryOutcomes))
    /\ [][ (last' = "clearChat" /\ queries # <<>>) =>
              (queries' = queries /\ isLoading /\ isLoading' /\ messages' = <<>>) ]_vars

\* C34 witness: a query has just succeeded after the session was cleared
\* during its flight, and the busy flag is false again
C34_Witness ==
    /\ last = "querySuccess"
    /\ settled.overwrote
    /\ ~isLoading
    /\ queries = <<>>

\* C35: in every reachable state the query busy flag is true if and only if
\* exactly one query request is outstanding, and false if and only if none is.
C35_BusyIffOneOutstanding ==
    /\ isLoading <=> Len(queries) = 1
    /\ ~isLoading <=> Len(queries) = 0

\* C35 witness: the second question is in flight after the first was answered
C35_Witness ==
    /\ last = "send"
    /\ nSends = 2
    /\ isLoading
    /\ Len(queries) = 1
    /\ messages[2].content = <<"a">>

\* C36: the log batch is empty until a query response carries a `logs`
\* sequence, a successful response that carries one makes the batch that
\* sequence, and no other step (a failed query, a response without logs, a
\* clear-session, an admin step, any other step) changes it; so the batch
\* is always the `logs` of the latest response that carried one.
C36_LogsAreLatestCarried ==
    /\ [](nSends = 0 => logs = <<>>)
    /\ [][ /\ last' = "querySuccess" =>
                 LET l == Prop(consoleLog'[1], <<"logs">>)
                 IN IF l.t = "arr" THEN logs' = l.items ELSE logs' = logs
           /\ last' # "querySuccess" => logs' = logs
         ]_vars

\* C36 witness: the latest response carried no logs and the batch still
\* holds the lines of the response before it
C36_Witness ==
    /\ last = "querySuccess"
    /\ Prop(Response, <<"logs">>) = Absent
    /\ logs = <<Str(<<"l">>)>>
    /\ Len(messages) = 4

\* C37: an inspect that settles by failure leaves the stored structure as it
\* was, and so does every step other than a successful inspect: after a
\* failure the structure is still the body of the latest successful inspect,
\* or nothing if none has succeeded.
C37_FailedInspectKeepsStructure ==
    [][ /\ \A i \in 1..Len(inspects) :
              (last' = "inspectFailure" /\ inspects' = RemoveAt(inspects, i)) =>
                  /\ settled'.outcome.kind # "ok"
                  /\ inspectData' = inspectData
                  /\ inspectData' \in Structures \cup {Null}
        /\ last' # "inspectSuccess" => inspectData' = inspectData
      ]_vars

\* C37 witness: an inspect has just failed on an undecodable body and the
\* structure of an earlier inspect is still stored
C37_Witness ==
    /\ last = "inspectFailure"
    /\ settled.outcome = DecodeFailure
    /\ inspectData \in Structures
    /\ ~inspecting

\* C38: the sidebar toggle flips the panel's visibility and leaves the three
\* busy flags, the index-name field, the stored structure, the chat and
\* every request in flight as they were; a request in flight can settle
\* whether the panel is shown or hidden, and its settlement leaves its busy
\* flag false.
C38_ToggleChangesVisibilityOnly ==
    /\ [](/\ uploads # <<>> => ENABLED UploadSettles
          /\ inspects # <<>> => ENABLED InspectSettles
          /\ clears # <<>> => ENABLED ClearSettles)
    /\ [][ /\ last' = "toggle" =>
                 /\ sidebarOpen' = ~sidebarOpen
                 /\ UNCHANGED <<uploading, inspecting, clearing, clearIndexName, inspectData>>
                 /\ UNCHANGED <<uploads, inspects, clears>>
                 /\ UNCHANGED <<messages, input, isLoading, logs, queries, nSends>>
           /\ (~sidebarOpen /\ last' \in {"uploadSuccess", "uploadFailure"}) =>
                 (uploading /\ ~uploading')
           /\ (~sidebarOpen /\ last' \in {"inspectSuccess", "inspectFailure"}) =>
                 (inspecting /\ ~inspecting')
           /\ (~sidebarOpen /\ last' \in {"clearSuccess", "clearFailure"}) =>
                 (clearing /\ ~clearing')
         ]_vars

\* C38 witness: with the panel hidden, a clear-index issued before it was
\* hidden has just settled and an upload is still in flight
C38_Witness ==
    /\ ~sidebarOpen
    /\ last = "clearSuccess"
    /\ ~clearing
    /\ uploading /\ uploads # <<>>
====
